---- MODULE Spec2Model ----
(***************************************************************************)
(* Post-processing reconstruction layer of lartpc_mlreco3d                 *)
(* (analysis/post_processing/reconstruction/kinematics.py): the three      *)
(* processors ParticleSemanticsProcessor, ParticlePropertiesProcessor and  *)
(* MomentumProcessor, each a loop over the particles of one event that     *)
(* rewrites particle fields in place.                                      *)
(*                                                                         *)
(* Floating-point values are modelled as exact extended rationals          *)
(* <<n, d>> in lowest terms with d >= 0: d > 0 is the rational n/d,        *)
(* <<0, 0>> is NaN, <<1, 0>> is +inf and <<-1, 0>> is -inf, with the IEEE  *)
(* rules for 0/0, x/0, inf*0 and comparisons with NaN.  Rounding is not    *)
(* modelled.  Class indices are 0-based as in the source; vectors are      *)
(* 1-based sequences, so class k is entry k+1.                             *)
(***************************************************************************)
EXTENDS Integers, Sequences, FiniteSets

VARIABLES cfg, particles, interactions, pc, idx, err, runs, before, first,
          log

vars ==
    <<cfg, particles, interactions, pc, idx, err, runs, before, first, log>>

----------------------------------------------------------------------------
(* Bounds of the model *)

\* largest number of particles in an event
NumParticles == 2
\* denominator of the grid the input scores of single-particle events lie on
Scale == 2
\* how many trailing classes a score vector may lack
MaxMissing == 1
\* how many times in a row the caller runs a processor on one event
MaxRuns == 2

----------------------------------------------------------------------------
(* Floating-point arithmetic *)

Abs(n) == IF n < 0 THEN -n ELSE n

Sgn(n) == IF n > 0 THEN 1 ELSE IF n < 0 THEN -1 ELSE 0

RECURSIVE GCD(_, _)
GCD(a, b) == IF b = 0 THEN a ELSE GCD(b, a % b)

\* the float n/d for d >= 0, in lowest terms
Norm(n, d) ==
    IF d = 0 THEN <<Sgn(n), 0>>
    ELSE LET g == GCD(Abs(n), d) IN <<n \div g, d \div g>>

NaN == <<0, 0>>
PosInf == <<1, 0>>
NegInf == <<-1, 0>>
Zero == <<0, 1>>
One == <<1, 1>>

IsNaN(a) == a = NaN
IsFinite(a) == a[2] > 0

FNeg(a) == <<-a[1], a[2]>>

FAdd(a, b) ==
    IF IsNaN(a) \/ IsNaN(b) THEN NaN
    ELSE IF ~IsFinite(a) /\ ~IsFinite(b) THEN (IF a = b THEN a ELSE NaN)
    ELSE IF ~IsFinite(a) THEN a
    ELSE IF ~IsFinite(b) THEN b
    ELSE Norm(a[1] * b[2] + b[1] * a[2], a[2] * b[2])

FSub(a, b) == FAdd(a, FNeg(b))

FMul(a, b) == Norm(a[1] * b[1], a[2] * b[2])

\* 1./a
FRecip(a) ==
    IF a[1] > 0 THEN <<a[2], a[1]>>
    ELSE IF a[1] < 0 THEN <<-a[2], -a[1]>>
    ELSE IF IsNaN(a) THEN NaN ELSE PosInf

FDiv(a, b) == FMul(a, FRecip(b))

\* a >= b, false when either side is NaN
FGe(a, b) ==
    IF IsNaN(a) \/ IsNaN(b) THEN FALSE
    ELSE IF a = PosInf \/ b = NegInf THEN TRUE
    ELSE IF a = NegInf \/ b = PosInf THEN FALSE
    ELSE a[1] * b[2] >= b[1] * a[2]

\* a == b, false when either side is NaN
FEq(a, b) == ~IsNaN(a) /\ ~IsNaN(b) /\ a = b

FGt(a, b) == FGe(a, b) /\ ~FEq(a, b)

RECURSIVE FSumTo(_, _)
FSumTo(v, n) == IF n = 0 THEN Zero ELSE FAdd(FSumTo(v, n - 1), v[n])

\* np.sum(v)
FSum(v) == FSumTo(v, Len(v))

\* elementwise equality of two vectors, as np.array_equal
VecEq(u, v) == Len(u) = Len(v) /\ \A i \in 1..Len(u) : FEq(u[i], v[i])

----------------------------------------------------------------------------
(* Static domain tables of mlreco.utils.globals *)

SHOWR_SHP == 0
TRACK_SHP == 1
MICHL_SHP == 2
DELTA_SHP == 3
LOWES_SHP == 4

PHOT_PID == 0
ELEC_PID == 1
MUON_PID == 2
PION_PID == 3
PROT_PID == 4
KAON_PID == 5

\* the theoretical number of particle-identity classes
NumPid == 6
\* the number of primary classes: [not primary, primary]
NumPrimary == 2

\* shape -> allowed PID classes; a shape outside the domain is a KeyError
SHP_TO_PID ==
    [s \in {SHOWR_SHP, TRACK_SHP, MICHL_SHP, DELTA_SHP} |->
        CASE s = SHOWR_SHP -> {PHOT_PID, ELEC_PID}
          [] s = TRACK_SHP -> {MUON_PID, PION_PID, PROT_PID, KAON_PID}
          [] OTHER -> {ELEC_PID}]

\* shape -> allowed primary classes
SHP_TO_PRIMARY ==
    [s \in {SHOWR_SHP, TRACK_SHP, MICHL_SHP, DELTA_SHP} |->
        CASE s \in {SHOWR_SHP, TRACK_SHP} -> {0, 1}
          [] OTHER -> {0}]

\* PID class -> rest mass, in units of 0.1 MeV
PID_MASSES ==
    [k \in {PHOT_PID, ELEC_PID, MUON_PID, PION_PID, PROT_PID, KAON_PID} |->
        CASE k = PHOT_PID -> 0
          [] k = ELEC_PID -> 5
          [] k = MUON_PID -> 1057
          [] k = PION_PID -> 1396
          [] k = PROT_PID -> 9383
          [] OTHER -> 4937]

----------------------------------------------------------------------------
(* Particle and Interaction records *)

\* the value of an unfilled 3-vector attribute (start_dir, momentum)
NoVec == <<NegInf, NegInf, NegInf>>

\* index (0-based) of the first largest entry, as np.argmax
ArgMax(v) ==
    CHOOSE k \in 0..(Len(v) - 1) :
        /\ \A j \in 0..(Len(v) - 1) : FGe(v[k + 1], v[j + 1])
        /\ \A j \in 0..(k - 1) : ~FGe(v[j + 1], v[k + 1])

\* a particle as upstream inference leaves it: pid and is_primary are the
\* argmax of the score vectors, kinematic attributes are unfilled
Particle(shape, pid_scores, primary_scores) ==
    [semantic_type  |-> shape,
     pid_scores     |-> pid_scores,
     primary_scores |-> primary_scores,
     pid            |-> ArgMax(pid_scores),
     is_primary     |-> ArgMax(primary_scores) = 1,
     is_contained   |-> FALSE,
     calo_ke        |-> -1,
     csda_ke        |-> -1,
     mcs_ke         |-> -1,
     start_dir      |-> NoVec,
     momentum       |-> NoVec]

\* the particle ids of each interaction of an event of n particles
InteractionIds(n) ==
    IF n = 1 THEN <<{1}>>
    ELSE <<{i \in 1..n : i % 2 = 1}, {i \in 1..n : i % 2 = 0}>>

\* Interaction._update_particle_info: the count of primaries per PID
UpdateParticleInfo(ids, ps) ==
    [k \in -1..(NumPid - 1) |->
        Cardinality({i \in ids : ps[i].is_primary /\ ps[i].pid = k})]

InitInteractions(ps) ==
    LET ids == InteractionIds(Len(ps))
    IN [j \in 1..Len(ids) |->
            [particle_ids |-> ids[j],
             summary |-> UpdateParticleInfo(ids[j], ps)]]

----------------------------------------------------------------------------
(* Input sets *)

RECURSIVE SumTo(_, _)
SumTo(w, n) == IF n = 0 THEN 0 ELSE SumTo(w, n - 1) + w[n]

\* the probability vectors of length len with entries on the grid j/scale
ScoreGrid(len, scale) ==
    {[i \in 1..len |-> Norm(w[i], scale)] :
        w \in {x \in [1..len -> 0..scale] : SumTo(x, len) = scale}}

OneHot(len, k) == [i \in 1..len |-> IF i = k + 1 THEN One ELSE Zero]

PidLens == (NumPid - MaxMissing)..NumPid
PrimaryLens == (NumPrimary - MaxMissing)..NumPrimary

FinePidScores == UNION {ScoreGrid(n, Scale) : n \in PidLens}
FinePrimaryScores == UNION {ScoreGrid(n, Scale) : n \in PrimaryLens}

CoarsePidScores == {OneHot(NumPid, k) : k \in {ELEC_PID, MUON_PID}}
CoarsePrimaryScores == {OneHot(NumPrimary, k) : k \in {0, 1}}

\* the events of 2..NumParticles particles drawn from S
MultiEvents(S) == UNION {[1..n -> S] : n \in 2..NumParticles}

----------------------------------------------------------------------------
(* ParticleSemanticsProcessor *)

SemName == "enforce_particle_semantics"

\* lines 59-62: zero the entries outside range and divide by the sum
MaskNormalize(scores, range) ==
    LET masked == [i \in 1..Len(scores) |->
                      IF (i - 1) \in range THEN scores[i] ELSE Zero]
        total == FSum(masked)
    IN [i \in 1..Len(scores) |-> FDiv(masked[i], total)]

\* lines 55-63
EnforcePid(p) ==
    IF p.semantic_type \notin DOMAIN SHP_TO_PID
    THEN [p |-> p, err |-> "KeyError"]
    ELSE LET pid_range ==
                 {k \in SHP_TO_PID[p.semantic_type] : k < Len(p.pid_scores)}
         IN [p |-> [p EXCEPT !.pid_scores = MaskNormalize(@, pid_range)],
             err |-> "none"]

\* lines 66-73: primary_range is not cut to the vector's length
EnforcePrimary(p) ==
    IF p.semantic_type \notin DOMAIN SHP_TO_PRIMARY
    THEN [p |-> p, err |-> "KeyError"]
    ELSE LET primary_range == SHP_TO_PRIMARY[p.semantic_type]
         IN IF \E k \in primary_range : k >= Len(p.primary_scores)
            THEN [p |-> p, err |-> "IndexError"]
            ELSE [p |-> [p EXCEPT !.primary_scores =
                                      MaskNormalize(@, primary_range)],
                  err |-> "none"]

\* mutant of SemBody: the PID scores are reset whatever enforce_pid says
SemBodyAlwaysPid(p, c) ==
    LET r1 == EnforcePid(p)
    IN IF r1.err # "none" THEN r1
       ELSE IF c.enforce_primary THEN EnforcePrimary(r1.p) ELSE r1

\* lines 50-73: the body of the loop over the particles
SemBody(p, c) ==
    LET r1 == IF c.enforce_pid THEN EnforcePid(p) ELSE [p |-> p, err |-> "none"]
    IN IF r1.err # "none" THEN r1
       ELSE IF c.enforce_primary THEN EnforcePrimary(r1.p) ELSE r1

SemConfigs ==
    {[name |-> SemName, enforce_pid |-> a, enforce_primary |-> b] :
        a \in BOOLEAN, b \in BOOLEAN}

SemFineParticles ==
    {Particle(s, v, w) : s \in SHOWR_SHP..LOWES_SHP,
                         v \in FinePidScores, w \in FinePrimaryScores}

SemCoarseParticles ==
    {Particle(s, v, w) : s \in {TRACK_SHP, DELTA_SHP, LOWES_SHP},
                         v \in CoarsePidScores, w \in CoarsePrimaryScores}

SemEvents ==
    {<<p>> : p \in SemFineParticles} \cup MultiEvents(SemCoarseParticles)

----------------------------------------------------------------------------
(* ParticlePropertiesProcessor *)

PropName == "adjust_particle_properties"

\* an unset option (None)
None == <<>>

\* a threshold mapping is the sequence of its (class, threshold) items in
\* insertion order
Keys(thr) == {thr[j][1] : j \in 1..Len(thr)}

\* mutant of Rescale: the scores are not rescaled after a rejected class
RescaleSkipped(scores, k) == scores

\* line 146: scores *= 1./(1 - scores[k])
Rescale(scores, k) ==
    LET f == FRecip(FSub(One, scores[k + 1]))
    IN [i \in 1..Len(scores) |-> FMul(scores[i], f)]

\* lines 140-146: the walk from item j on, over the copy of the scores
RECURSIVE Walk(_, _, _)
Walk(scores, thr, j) ==
    IF j > Len(thr) THEN [assigned |-> FALSE, pid |-> -1, err |-> "none"]
    ELSE LET k == thr[j][1]
             v == thr[j][2]
         IN IF k >= Len(scores)
            THEN [assigned |-> FALSE, pid |-> -1, err |-> "IndexError"]
            ELSE IF FGe(scores[k + 1], v)
            THEN [assigned |-> TRUE, pid |-> k, err |-> "none"]
            ELSE Walk(Rescale(scores, k), thr, j + 1)

\* lines 135-136
SelectThresholds(p, c) ==
    IF p.semantic_type = TRACK_SHP
    THEN c.track_pid_thresholds ELSE c.em_pid_thresholds

\* mutant of AdjustPid: the assertion after the walk is missing
AdjustPidUnchecked(p, c) ==
    LET pid_thresholds == SelectThresholds(p, c)
    IN IF Len(pid_thresholds) = 0 THEN [p |-> p, err |-> "none"]
       ELSE LET w == Walk(p.pid_scores, pid_thresholds, 1)
            IN IF w.err # "none" THEN [p |-> p, err |-> w.err]
               ELSE IF w.assigned
               THEN [p |-> [p EXCEPT !.pid = w.pid], err |-> "none"]
               ELSE [p |-> p, err |-> "none"]

\* lines 135-149
AdjustPid(p, c) ==
    LET pid_thresholds == SelectThresholds(p, c)
    IN IF Len(pid_thresholds) = 0 THEN [p |-> p, err |-> "none"]
       ELSE LET w == Walk(p.pid_scores, pid_thresholds, 1)
            IN IF w.err # "none" THEN [p |-> p, err |-> w.err]
               ELSE IF w.assigned
               THEN [p |-> [p EXCEPT !.pid = w.pid], err |-> "none"]
               ELSE [p |-> p, err |-> "AssertionError"]

\* mutant of AdjustPrimary: a strict comparison with the threshold
AdjustPrimaryStrict(p, c) ==
    IF c.primary_threshold = None THEN [p |-> p, err |-> "none"]
    ELSE IF Len(p.primary_scores) < 2 THEN [p |-> p, err |-> "IndexError"]
    ELSE [p |-> [p EXCEPT !.is_primary =
                     FGt(p.primary_scores[2], c.primary_threshold)],
          err |-> "none"]

\* lines 152-153
AdjustPrimary(p, c) ==
    IF c.primary_threshold = None THEN [p |-> p, err |-> "none"]
    ELSE IF Len(p.primary_scores) < 2 THEN [p |-> p, err |-> "IndexError"]
    ELSE [p |-> [p EXCEPT !.is_primary =
                     FGe(p.primary_scores[2], c.primary_threshold)],
          err |-> "none"]

\* lines 133-153: the body of the loop over the particles
PropBody(p, c) ==
    LET r1 == AdjustPid(p, c)
    IN IF r1.err # "none" THEN r1 ELSE AdjustPrimary(r1.p, c)

\* the mapping and the scores of the spec's worked example
ExampleThresholds ==
    <<<<MUON_PID, Norm(4, 5)>>, <<PION_PID, Norm(1, 2)>>, <<PROT_PID, Zero>>>>
ExampleScores ==
    <<Zero, Zero, Norm(3, 10), Norm(6, 10), Norm(1, 10), Zero>>

TrackThresholdInputs ==
    {<<>>,
     ExampleThresholds,
     \* no catch-all entry
     <<<<MUON_PID, Norm(4, 5)>>, <<PION_PID, Norm(1, 2)>>>>,
     \* insertion order that is not the order of the keys
     <<<<PION_PID, Norm(4, 5)>>, <<MUON_PID, Norm(1, 2)>>, <<PROT_PID, Zero>>>>,
     \* a class that short score vectors lack
     <<<<KAON_PID, Norm(1, 2)>>, <<MUON_PID, Zero>>>>}

EmThresholdInputs ==
    {<<>>, <<<<PHOT_PID, Norm(2, 3)>>, <<ELEC_PID, Zero>>>>}

PrimaryThresholdInputs == {None, Norm(1, 2), Norm(9, 10)}

\* lines 110-114: the constructor rejects a configuration with nothing to do
PropConfigs ==
    {c \in [name : {PropName},
            em_pid_thresholds : EmThresholdInputs,
            track_pid_thresholds : TrackThresholdInputs,
            primary_threshold : PrimaryThresholdInputs] :
        ~(Len(c.em_pid_thresholds) = 0 /\ Len(c.track_pid_thresholds) = 0
            /\ c.primary_threshold = None)}

PropFineParticles ==
    {[Particle(s, v, w) EXCEPT !.is_primary = b] :
        s \in {SHOWR_SHP, TRACK_SHP, DELTA_SHP},
        v \in FinePidScores \cup {ExampleScores},
        w \in FinePrimaryScores \cup {<<Norm(1, 5), Norm(4, 5)>>},
        b \in BOOLEAN}

PropCoarseParticles ==
    {Particle(s, v, w) : s \in {SHOWR_SHP, TRACK_SHP},
                         v \in CoarsePidScores, w \in CoarsePrimaryScores}

PropEvents ==
    {<<p>> : p \in PropFineParticles} \cup MultiEvents(PropCoarseParticles)

----------------------------------------------------------------------------
(* MomentumProcessor *)

MomName == "reconstruct_momentum"

RECURSIVE ISqrtIn(_, _, _)
ISqrtIn(n, lo, hi) ==
    IF lo >= hi THEN lo
    ELSE LET mid == (lo + hi + 1) \div 2
         IN IF mid * mid <= n THEN ISqrtIn(n, mid, hi)
            ELSE ISqrtIn(n, lo, mid - 1)

\* np.sqrt(n) for n <= hi * hi, rounded down to a whole number of 0.1 MeV
ISqrt(n, hi) == ISqrtIn(n, 0, hi)

\* lines 211-224: the kinetic energy the code picks
ResolveKe(p, c) ==
    IF p.semantic_type # TRACK_SHP THEN p.calo_ke
    ELSE IF (c.method = "csda" \/ p.is_contained) /\ p.csda_ke > 0
    THEN p.csda_ke
    ELSE IF (c.method = "mcs" \/ ~p.is_contained) /\ p.mcs_ke > 0
    THEN p.mcs_ke
    ELSE p.calo_ke

\* lines 237-241
MomentumOf(ke, mass, direction) ==
    LET momentum ==
            ISqrt((ke + mass) * (ke + mass) - mass * mass, ke + mass)
    IN [i \in 1..3 |-> FMul(<<momentum, 1>>, direction[i])]

\* mutant of MomBody: the check of start_dir is missing
MomBodyNoDirectionCheck(p, c) ==
    IF p.pid < 0 THEN [p |-> p, err |-> "none"]
    ELSE IF p.pid \notin DOMAIN PID_MASSES THEN [p |-> p, err |-> "ValueError"]
    ELSE LET ke == ResolveKe(p, c)
         IN IF ke < 0 THEN [p |-> p, err |-> "ValueError"]
            ELSE [p |-> [p EXCEPT !.momentum =
                             MomentumOf(ke, PID_MASSES[p.pid], p.start_dir)],
                  err |-> "none"]

\* lines 202-241: the body of the loop over the particles
MomBody(p, c) ==
    IF p.pid < 0 THEN [p |-> p, err |-> "none"]
    ELSE IF p.pid \notin DOMAIN PID_MASSES THEN [p |-> p, err |-> "ValueError"]
    ELSE LET ke == ResolveKe(p, c)
         IN IF ke < 0 THEN [p |-> p, err |-> "ValueError"]
            ELSE IF p.start_dir[1] = NegInf
            THEN [p |-> p, err |-> "ValueError"]
            ELSE [p |-> [p EXCEPT !.momentum =
                             MomentumOf(ke, PID_MASSES[p.pid], p.start_dir)],
                  err |-> "none"]

\* lines 185-188: the recognized methods
MomConfigs ==
    {[name |-> MomName, method |-> m] : m \in {"best", "csda", "calo", "mcs"}}

\* kinetic energies in units of 0.1 MeV: unfilled, zero, and one positive
\* value per source
CaloKeInputs == {-1, 0, 450}
CsdaKeInputs == {-1, 0, 500}
McsKeInputs == {-1, 0, 480}

DirInputs == {NoVec, <<Zero, Zero, One>>}

\* undetermined, two supported classes, and a class without a rest mass
PidInputs == {-1, ELEC_PID, MUON_PID, NumPid}

MomParticle(shape, pid, contained, calo, csda, mcs, dir) ==
    [Particle(shape, OneHot(NumPid, MUON_PID), OneHot(NumPrimary, 1))
        EXCEPT !.pid = pid, !.is_contained = contained, !.calo_ke = calo,
               !.csda_ke = csda, !.mcs_ke = mcs, !.start_dir = dir]

MomFineParticles ==
    {MomParticle(s, k, b, calo, csda, mcs, d) :
        s \in {SHOWR_SHP, TRACK_SHP}, k \in PidInputs, b \in BOOLEAN,
        calo \in CaloKeInputs, csda \in CsdaKeInputs, mcs \in McsKeInputs,
        d \in DirInputs}

MomCoarseParticles ==
    {MomParticle(TRACK_SHP, k, TRUE, calo, -1, -1, d) :
        k \in {-1, MUON_PID, NumPid}, calo \in CaloKeInputs, d \in DirInputs}

MomEvents ==
    {<<p>> : p \in MomFineParticles} \cup MultiEvents(MomCoarseParticles)

----------------------------------------------------------------------------
(* The processors' loops *)

\* mutant of HasInteractionLoop: process returns right after the particles
HasInteractionLoopNever(c) == FALSE

\* lines 75-77 and 155-157; MomentumProcessor has no such loop
HasInteractionLoop(c) == c.name \in {SemName, PropName}

Body(p, c) ==
    CASE c.name = SemName -> SemBody(p, c)
      [] c.name = PropName -> PropBody(p, c)
      [] c.name = MomName -> MomBody(p, c)

InitWith(configs, events) ==
    /\ cfg \in configs
    /\ particles \in events
    /\ interactions = InitInteractions(particles)
    /\ pc = "idle"
    /\ idx = 0
    /\ err = "none"
    /\ runs = 0
    /\ before = particles
    /\ first = <<>>
    /\ log = <<>>

\* the caller invokes process(data_dict, result_dict) on the event
Call ==
    /\ pc \in {"idle", "returned"}
    /\ runs < MaxRuns
    /\ pc' = "particles"
    /\ idx' = 1
    /\ before' = particles
    /\ log' = <<>>
    /\ UNCHANGED <<cfg, particles, interactions, err, runs, first>>

\* what follows the last iteration of the particle loop
AfterParticles(ps) ==
    IF HasInteractionLoop(cfg)
    THEN /\ pc' = "interactions"
         /\ idx' = 1
         /\ UNCHANGED <<runs, first>>
    ELSE /\ pc' = "returned"
         /\ idx' = 0
         /\ runs' = runs + 1
         /\ first' = IF runs = 0 THEN ps ELSE first

\* one iteration of `for p in result_dict['particles']`
ParticleStep ==
    /\ pc = "particles"
    /\ LET r == Body(particles[idx], cfg)
       IN /\ particles' = [particles EXCEPT ![idx] = r.p]
          /\ err' = r.err
          /\ IF r.err # "none"
             THEN /\ pc' = "raised"
                  /\ UNCHANGED <<idx, runs, first>>
             ELSE IF idx < Len(particles)
             THEN /\ pc' = "particles"
                  /\ idx' = idx + 1
                  /\ UNCHANGED <<runs, first>>
             ELSE AfterParticles(particles')
    /\ log' = Append(log, <<"particle", idx>>)
    /\ UNCHANGED <<cfg, interactions, before>>

\* one iteration of `for ia in result_dict['interactions']`, and the return
\* after the last one
InteractionStep ==
    /\ pc = "interactions"
    /\ interactions' =
           [interactions EXCEPT ![idx].summary =
               UpdateParticleInfo(interactions[idx].particle_ids, particles)]
    /\ IF idx < Len(interactions)
       THEN /\ idx' = idx + 1
            /\ UNCHANGED <<pc, runs, first>>
       ELSE /\ pc' = "returned"
            /\ idx' = 0
            /\ runs' = runs + 1
            /\ first' = IF runs = 0 THEN particles ELSE first
    /\ log' = Append(log, <<"update", idx>>)
    /\ UNCHANGED <<cfg, particles, err, before>>

NextSem == Call \/ ParticleStep \/ InteractionStep

InitSem == InitWith(SemConfigs, SemEvents)

\* ParticleSemanticsProcessor on one event, run up to MaxRuns times
SpecSem == InitSem /\ [][NextSem]_vars

NextProp == Call \/ ParticleStep \/ InteractionStep

InitProp == InitWith(PropConfigs, PropEvents)

\* ParticlePropertiesProcessor on one event, run up to MaxRuns times
SpecProp == InitProp /\ [][NextProp]_vars

NextSemProp == Call \/ ParticleStep \/ InteractionStep

InitSemProp == InitSem \/ InitProp

\* either of the two processors that end with the interaction loop
SpecSemProp == InitSemProp /\ [][NextSemProp]_vars

NextMom == Call \/ ParticleStep

InitMom == InitWith(MomConfigs, MomEvents)

\* MomentumProcessor on one event, run up to MaxRuns times
SpecMom == InitMom /\ [][NextMom]_vars

----------------------------------------------------------------------------
(* Claims about ParticleSemanticsProcessor *)

BothFlags == cfg.name = SemName /\ cfg.enforce_pid /\ cfg.enforce_primary

\* v is non-negative, is zero outside the classes of allowed, and sums to 1
IsDistributionOn(v, allowed) ==
    /\ \A i \in 1..Len(v) : FGe(v[i], Zero)
    /\ \A i \in 1..Len(v) : (i - 1) \notin allowed => FEq(v[i], Zero)
    /\ FEq(FSum(v), One)

HasNaN(v) == \E i \in 1..Len(v) : IsNaN(v[i])

\* C1: after process completes with enforce_pid and enforce_primary, every
\* particle's pid_scores is non-negative, has no mass outside
\* SHP_TO_PID[semantic_type] and sums to 1, and likewise primary_scores with
\* SHP_TO_PRIMARY[semantic_type].
C1_ScoresAreMaskedDistributions ==
    (BothFlags /\ pc = "returned") =>
        \A i \in 1..Len(particles) :
            /\ IsDistributionOn(particles[i].pid_scores,
                                SHP_TO_PID[particles[i].semantic_type])
            /\ IsDistributionOn(particles[i].primary_scores,
                                SHP_TO_PRIMARY[particles[i].semantic_type])

\* C5: the processor never stores an undefined (NaN) score vector on a
\* particle: a masked vector without surviving mass is an explicit error.
C5_NeverStoresNaN ==
    \A i \in 1..Len(particles) :
        /\ ~HasNaN(particles[i].pid_scores)
        /\ ~HasNaN(particles[i].primary_scores)

----------------------------------------------------------------------------
(* Claims about ParticlePropertiesProcessor *)

\* particle i has been through the body of the particle loop in this run
Done(i) ==
    \/ pc \in {"particles", "raised"} /\ i < idx
    \/ pc \in {"interactions", "returned"}

\* the mapping the shape of particle i selects
ThresholdsOf(i) ==
    IF particles[i].semantic_type = TRACK_SHP
    THEN cfg.track_pid_thresholds ELSE cfg.em_pid_thresholds

RECURSIVE RejectedMass(_, _, _)
\* the total score of the first n classes of the mapping
RejectedMass(scores, thr, n) ==
    IF n = 0 THEN Zero
    ELSE FAdd(RejectedMass(scores, thr, n - 1), scores[thr[n][1] + 1])

\* the score of the j-th class of the mapping once the classes before it
\* have been rejected: its share of the mass they leave
Conditional(scores, thr, j) ==
    FDiv(scores[thr[j][1] + 1], FSub(One, RejectedMass(scores, thr, j - 1)))

Meets(scores, thr, j) ==
    /\ \A l \in 1..j : thr[l][1] < Len(scores)
    /\ LET a == Conditional(scores, thr, j)
           v == thr[j][2]
       IN a[2] > 0 /\ a[1] * v[2] >= v[1] * a[2]

\* C2: a particle whose shape selects a non-empty mapping gets the first
\* class, in the mapping's insertion order, whose score rescaled for the
\* classes rejected before it meets its threshold; with thresholds
\* {muon: 0.8, pion: 0.5, proton: 0.0} and scores {muon: 0.3, pion: 0.6,
\* proton: 0.1} a track particle gets pion.
C2_FirstClassMeetingThreshold ==
    cfg.name = PropName =>
        \A i \in 1..Len(particles) :
            (Done(i) /\ Len(ThresholdsOf(i)) > 0) =>
                LET thr == ThresholdsOf(i)
                    scores == particles[i].pid_scores
                IN /\ \E j \in 1..Len(thr) :
                        /\ particles[i].pid = thr[j][1]
                        /\ Meets(scores, thr, j)
                        /\ \A l \in 1..(j - 1) : ~Meets(scores, thr, l)
                   /\ (thr = ExampleThresholds /\ scores = ExampleScores)
                        => particles[i].pid = PION_PID

\* a class was assigned whose unrescaled score is below its threshold
C2_Witness ==
    /\ cfg.name = PropName
    /\ \E i \in 1..Len(particles) :
        /\ Done(i)
        /\ \E j \in 2..Len(ThresholdsOf(i)) :
            /\ particles[i].pid = ThresholdsOf(i)[j][1]
            /\ ~FGe(particles[i].pid_scores[ThresholdsOf(i)[j][1] + 1],
                    ThresholdsOf(i)[j][2])

\* C6: a walk of a non-empty mapping that ends without any score meeting
\* its threshold raises the coverage error and leaves the particle's pid as
\* it was; no particle gets through such a walk unassigned.
C6_UncoveredWalkRaises ==
    cfg.name = PropName =>
        \A i \in 1..Len(particles) :
            LET thr == ThresholdsOf(i)
                scores == particles[i].pid_scores
                covered == \E j \in 1..Len(thr) : Meets(scores, thr, j)
            IN /\ (Done(i) /\ Len(thr) > 0) => covered
               /\ (pc = "raised" /\ idx = i /\ err = "AssertionError") =>
                    /\ Len(thr) > 0
                    /\ ~covered
                    /\ particles[i].pid = before[i].pid
               /\ (pc = "raised" /\ idx = i /\ Len(thr) > 0 /\ ~covered
                        /\ \A j \in 1..Len(thr) : thr[j][1] < Len(scores))
                    => err = "AssertionError"

\* the coverage error was raised
C6_Witness ==
    cfg.name = PropName /\ pc = "raised" /\ err = "AssertionError"

\* C9: with a primary_threshold, a processed particle is primary exactly
\* if primary_scores[1] >= primary_threshold, whatever it was before
\* ([0.2, 0.8] is primary for 0.5 and not for 0.9); without one, is_primary
\* is left as it was.
C9_PrimaryFollowsThreshold ==
    cfg.name = PropName =>
        \A i \in 1..Len(particles) :
            Done(i) =>
                LET t == cfg.primary_threshold
                    s == particles[i].primary_scores
                IN IF t = None
                   THEN particles[i].is_primary = before[i].is_primary
                   ELSE /\ particles[i].is_primary
                             = (s[2][1] * t[2] >= t[1] * s[2][2])
                        /\ (s = <<Norm(1, 5), Norm(4, 5)>> /\ t = Norm(1, 2))
                             => particles[i].is_primary
                        /\ (s = <<Norm(1, 5), Norm(4, 5)>> /\ t = Norm(9, 10))
                             => ~particles[i].is_primary

\* the threshold overwrote the particle's earlier primary status
C9_Witness ==
    /\ cfg.name = PropName
    /\ cfg.primary_threshold # None
    /\ \E i \in 1..Len(particles) :
        Done(i) /\ particles[i].is_primary # before[i].is_primary

----------------------------------------------------------------------------
(* Claims about MomentumProcessor *)

Supported(p) == p.pid >= 0 /\ p.pid \in DOMAIN PID_MASSES

\* the selection of the kinetic energy as documented
DocumentedKe(p, method) ==
    IF p.semantic_type # TRACK_SHP THEN p.calo_ke
    ELSE IF (method = "csda" \/ (method = "best" /\ p.is_contained))
            /\ p.csda_ke > 0
    THEN p.csda_ke
    ELSE IF (method = "mcs" \/ (method = "best" /\ ~p.is_contained))
            /\ p.mcs_ke > 0
    THEN p.mcs_ke
    ELSE p.calo_ke

\* C3: for a particle with a supported pid the kinetic energy used is
\* calo_ke for a non-track; for a track csda_ke when (method is csda, or
\* best and contained) and csda_ke > 0, else mcs_ke when (method is mcs, or
\* best and not contained) and mcs_ke > 0, else calo_ke; with method calo a
\* track always uses calo_ke.
C3_KineticEnergySelection ==
    cfg.name = MomName =>
        \A i \in 1..Len(particles) :
            LET p == particles[i]
                ke == DocumentedKe(p, cfg.method)
            IN (Done(i) /\ Supported(p)) =>
                    /\ ke >= 0
                    /\ p.momentum
                         = MomentumOf(ke, PID_MASSES[p.pid], p.start_dir)

\* C4: after process returns normally, a particle's momentum has been
\* written exactly if its pid is resolved, its resolved kinetic energy is
\* positive and its start_dir is filled; a particle with pid < 0 keeps its
\* momentum and raises nothing.
C4_MomentumWrittenIffResolved ==
    (cfg.name = MomName /\ pc = "returned") =>
        \A i \in 1..Len(particles) :
            LET p == particles[i]
            IN /\ (p.momentum # NoVec) <=>
                    (Supported(p) /\ ResolveKe(p, cfg) > 0
                        /\ p.start_dir[1] # NegInf)
               /\ p.pid < 0 => p.momentum = before[i].momentum

\* C7: a particle with a supported pid whose resolved kinetic energy is
\* not positive (ke <= 0) makes process raise, and its momentum is not
\* written.
C7_NonPositiveKeRaises ==
    cfg.name = MomName =>
        \A i \in 1..Len(particles) :
            LET p == particles[i]
            IN (Supported(p) /\ ResolveKe(p, cfg) <= 0) =>
                    /\ ~Done(i)
                    /\ p.momentum = before[i].momentum

\* C8: a particle with pid >= 0 whose pid has no rest mass in PID_MASSES,
\* or whose start_dir is the unfilled sentinel, makes process raise: the
\* loop never gets past it and its momentum stays as it was.
C8_UnsupportedPidOrNoDirectionRaises ==
    cfg.name = MomName =>
        \A i \in 1..Len(particles) :
            LET p == particles[i]
            IN (p.pid >= 0 /\ (p.pid \notin DOMAIN PID_MASSES
                                \/ p.start_dir[1] = NegInf)) =>
                    /\ ~Done(i)
                    /\ p.momentum = before[i].momentum
                    /\ (pc = "raised" /\ idx = i) => err = "ValueError"

\* process raised at a particle, not the first of its event, that has a
\* supported pid and a positive kinetic energy but no direction
C8_Witness ==
    /\ cfg.name = MomName
    /\ pc = "raised"
    /\ idx > 1
    /\ Supported(particles[idx])
    /\ ResolveKe(particles[idx], cfg) > 0
    /\ particles[idx].start_dir = NoVec

----------------------------------------------------------------------------
(* Further claims about ParticleSemanticsProcessor *)

\* C11: the two maskings are toggled independently: with enforce_pid false
\* no particle's pid_scores is changed by process, and with enforce_primary
\* false no particle's primary_scores is, whatever the other flag says.
C11_DisabledMaskingLeavesScores ==
    cfg.name = SemName =>
        \A i \in 1..Len(particles) :
            /\ ~cfg.enforce_pid =>
                    particles[i].pid_scores = before[i].pid_scores
            /\ ~cfg.enforce_primary =>
                    particles[i].primary_scores = before[i].primary_scores

\* a run with exactly one flag set rewrote the vector of that flag and kept
\* the other vector, which the other masking would have changed
C11_Witness ==
    /\ cfg.name = SemName
    /\ pc = "returned"
    /\ ~cfg.enforce_pid
    /\ cfg.enforce_primary
    /\ \E i \in 1..Len(particles) :
        /\ particles[i].primary_scores # before[i].primary_scores
        /\ EnforcePid(particles[i]).p.pid_scores # particles[i].pid_scores

----------------------------------------------------------------------------
(* Claims about the recomputation of the interaction summaries; log is the  *)
(* sequence of loop iterations of the current call: <<"particle", i>> for   *)
(* the body of the particle loop on particle i, where all writes to         *)
(* particle fields happen, and <<"update", j>> for _update_particle_info    *)
(* on interaction j.                                                        *)

Positions(kind, n) == {k \in 1..Len(log) : log[k] = <<kind, n>>}

\* C12: in a run of ParticleSemanticsProcessor.process or
\* ParticlePropertiesProcessor.process that returns normally,
\* _update_particle_info is invoked on every interaction, after the last
\* write to any particle in that run, so no summary is computed from a
\* particle state that the run changes later.
C12_RecomputeAfterAllWrites ==
    (cfg.name \in {SemName, PropName} /\ pc = "returned" /\ runs > 0) =>
        /\ \A j \in 1..Len(interactions) :
            /\ Positions("update", j) # {}
            /\ interactions[j].summary
                 = UpdateParticleInfo(interactions[j].particle_ids, particles)
        /\ \A i \in 1..Len(particles) : Positions("particle", i) # {}
        /\ \A k, l \in 1..Len(log) :
            (log[k][1] = "particle" /\ log[l][1] = "update") => k < l

\* a run returned that changed a particle's pid or primary status, and with
\* it an interaction's summary
C12_Witness ==
    /\ cfg.name \in {SemName, PropName}
    /\ pc = "returned"
    /\ \E i \in 1..Len(particles) :
        \/ particles[i].pid # before[i].pid
        \/ particles[i].is_primary # before[i].is_primary
    /\ \E j \in 1..Len(interactions) :
        interactions[j].summary
            # UpdateParticleInfo(interactions[j].particle_ids, before)

\* the primary class of a particle: 1 if primary, 0 if not
PrimaryClass(p) == IF p.is_primary THEN 1 ELSE 0

\* C13: after a run with enforce_pid and enforce_primary every particle's
\* identity is consistent with its shape: its pid lies in
\* SHP_TO_PID[semantic_type] and its primary status in
\* SHP_TO_PRIMARY[semantic_type].
C13_IdentityConsistentWithShape ==
    (BothFlags /\ pc = "returned") =>
        \A i \in 1..Len(particles) :
            /\ particles[i].pid \in SHP_TO_PID[particles[i].semantic_type]
            /\ PrimaryClass(particles[i])
                 \in SHP_TO_PRIMARY[particles[i].semantic_type]

\* v has nothing above zero outside the classes of allowed
MaskedTo(v, allowed) ==
    \A k \in 1..Len(v) : (k - 1) \notin allowed => ~FGt(v[k], Zero)

C15_NoStaleSummaryOnExit ==
    (cfg.name = PropName
        /\ (pc = "returned" \/ (pc = "raised" /\ err = "AssertionError"))) =>
        \A j \in 1..Len(interactions) :
            interactions[j].summary
                = UpdateParticleInfo(interactions[j].particle_ids, particles)

====
